---- MODULE Spec2Model ----
(***************************************************************************)
(* Model of the OCR backend (src/backend/index.js): the upload pipeline    *)
(* (multer -> sharp -> Tesseract -> mongoose save -> cleanup) and the      *)
(* record routes (list/search, get by id, delete by id), as concurrent     *)
(* request handlers over one record collection and one uploads directory.  *)
(* Every await of a handler is a point where other requests may run.       *)
(* Strings are sequences of one-character strings.                         *)
(***************************************************************************)
EXTENDS Integers, Sequences, FiniteSets, TLC

VARIABLES now, files, records, nextId, req, resp, uploaded, acked, ui

vars == <<now, files, records, nextId, req, resp, uploaded, acked, ui>>

----------------------------------------------------------------------------
(* Bounds of the model *)

MaxSlots == 2        \* requests in flight at the same time
MaxUploads == 2      \* uploads whose file passes the filter, in one run
MaxTime == 1         \* last millisecond of the clock (Date.now() in 0..MaxTime)
MaxRand == 1         \* Math.round(Math.random() * 1E9) drawn from 0..MaxRand
MaxShown == 3        \* records in the store when the Records page loads
MaxPending == 2      \* delete requests of the Records page awaiting their answer

Slots == 1..MaxSlots
Rands == 0..MaxRand

----------------------------------------------------------------------------
(* Program constants *)

FileSizeLimit == 10485760          \* limits.fileSize: 10 * 1024 * 1024
DefaultLanguage == "eng"
MalformedId == 0                   \* a route parameter that is no ObjectId

\* allowedTypes = /jpeg|jpg|png|gif|bmp|tiff|webp/
AllowedTypes ==
    { <<"j","p","e","g">>, <<"j","p","g">>, <<"p","n","g">>, <<"g","i","f">>,
      <<"b","m","p">>, <<"t","i","f","f">>, <<"w","e","b","p">> }

----------------------------------------------------------------------------
(* Inputs the requests are drawn from *)

PngName == <<"a",".","p","n","g">>
UpperName == <<"a",".","P","N","G">>
ExeName == <<"a",".","e","x","e">>
PngMime == <<"i","m","a","g","e","/","p","n","g">>
TextMime == <<"t","e","x","t","/","p","l","a","i","n">>

\* the files of upload requests: originalname, mimetype and size in bytes
\* (hasFile = FALSE: a request without an image part)
UploadFiles ==
    { [hasFile |-> FALSE, name |-> <<>>, mime |-> <<>>, size |-> 0],
      [hasFile |-> TRUE, name |-> PngName, mime |-> PngMime, size |-> FileSizeLimit],
      [hasFile |-> TRUE, name |-> PngName, mime |-> PngMime, size |-> FileSizeLimit + 1],
      [hasFile |-> TRUE, name |-> ExeName, mime |-> PngMime, size |-> 500000],
      [hasFile |-> TRUE, name |-> UpperName, mime |-> TextMime, size |-> 500000],
      [hasFile |-> TRUE, name |-> ExeName, mime |-> TextMime, size |-> 15728640] }
Languages == {"", "ben"}           \* "" : the request gives no language

\* outputs of the recognition step
Texts == { <<>>, <<" ">>, <<" ","A","b","\n">> }

\* search parameters of GET /api/records
Searches == { <<>>, <<"a">>, <<"c">>, <<".">>, <<"(">> }

----------------------------------------------------------------------------
(* Strings *)

LowerChar(c) ==
    CASE c = "A" -> "a" [] c = "B" -> "b" [] c = "C" -> "c"
      [] c = "E" -> "e" [] c = "G" -> "g" [] c = "N" -> "n"
      [] c = "P" -> "p" [] c = "X" -> "x"
      [] OTHER -> c

toLowerCase(s) == [i \in 1..Len(s) |-> LowerChar(s[i])]

\* sub occurs in s as a contiguous run of characters
Contains(s, sub) ==
    \E i \in 0..(Len(s) - Len(sub)) : SubSeq(s, i + 1, i + Len(sub)) = sub

IsSpace(c) == c \in {" ", "\n", "\t"}

\* String.prototype.trim
trim(s) ==
    LET keep == {i \in 1..Len(s) : ~IsSpace(s[i])}
    IN  IF keep = {} THEN <<>>
        ELSE LET lo == CHOOSE i \in keep : \A j \in keep : i <= j
                 hi == CHOOSE i \in keep : \A j \in keep : i >= j
             IN  SubSeq(s, lo, hi)

\* path.extname: from the last "." of the name to its end; "" when there is
\* none or the name starts with its only "."
extname(name) ==
    LET dots == {i \in 1..Len(name) : name[i] = "."}
    IN  IF dots = {} THEN <<>>
        ELSE LET d == CHOOSE i \in dots : \A j \in dots : i >= j
             IN  IF d = 1 THEN <<>> ELSE SubSeq(name, d, Len(name))

\* allowedTypes.test(s): the pattern is not anchored
allowedTypesTest(s) == \E a \in AllowedTypes : Contains(s, a)

\* multer fileFilter: TRUE when the file is accepted
fileFilter(originalname, mimetype) ==
    /\ allowedTypesTest(toLowerCase(extname(originalname)))
    /\ allowedTypesTest(mimetype)

----------------------------------------------------------------------------
(* Files of the uploads directory and documents of the Record collection *)

NoFile == [kind |-> "none", t |-> 0, r |-> 0, ext |-> <<>>]

\* multer diskStorage filename: fieldname-Date.now()-random + extname
storageFilename(t, r, originalname) ==
    [kind |-> "image", t |-> t, r |-> r, ext |-> extname(originalname)]

\* processedPath = `uploads/processed-${Date.now()}.png`
processedPathAt(t) ==
    [kind |-> "processed", t |-> t, r |-> 0, ext |-> <<".","p","n","g">>]

\* imageUrl = `/uploads/${req.file.filename}`
imageUrlOf(filename) == [prefix |-> "/uploads/", file |-> filename]

\* path.join(__dirname, record.imageUrl): the file the url names
pathOfUrl(url) == url.file

NoDoc == [id |-> MalformedId, imageUrl |-> imageUrlOf(NoFile),
          extractedText |-> <<>>, language |-> "", createdAt |-> 0]

\* new Record({imageUrl, extractedText, language}): _id and createdAt
\* (default: Date.now) are set when the document is constructed
newRecord(id, imageUrl, extractedText, language, t) ==
    [id |-> id, imageUrl |-> imageUrl, extractedText |-> extractedText,
     language |-> language, createdAt |-> t]

\* validation of save(): imageUrl and extractedText are required, and the
\* required validator of a String path rejects the empty string
validates(doc) == doc.extractedText # <<>>

\* the language field taken as it comes, without the default
languageAsGiven(lang) == lang

\* req.body.language || 'eng'
languageOf(lang) == IF lang = "" THEN DefaultLanguage ELSE lang

\* the cast of a route parameter to an ObjectId succeeds
isObjectId(id) == id # MalformedId

\* Record.findById(id): the set of documents found (empty or one)
findById(recs, id) == {d \in recs : d.id = id}

\* a delete that removes nothing
findByIdAndDeleteNothing(recs, id) == recs

\* Record.findByIdAndDelete(id)
findByIdAndDelete(recs, id) == {d \in recs : d.id # id}

\* fs.existsSync(p) followed by fs.unlinkSync(p)
unlinkIfExists(fs, p) == fs \ {p}

----------------------------------------------------------------------------
(* The query of GET /api/records *)

\* the search string is a pattern MongoDB can compile
regexValid(p) == \A i \in 1..Len(p) : p[i] # "("

\* one pattern character against one text character, with $options: 'i'
regexChar(pc, c) ==
    IF pc = "." THEN c # "\n" ELSE LowerChar(pc) = LowerChar(c)

\* { $regex: search, $options: 'i' }: the pattern matches somewhere in text
regexTest(p, text) ==
    \E i \in 0..(Len(text) - Len(p)) :
        \A k \in 1..Len(p) : regexChar(p[k], text[i + k])

\* query = search ? { extractedText: { $regex: search, $options: 'i' } } : {}
matching(recs, search) ==
    IF search # <<>> THEN {d \in recs : regexTest(search, d.extractedText)}
    ELSE recs

\* the ascending order, sort({ createdAt: 1 })
sortOrderAscending(a, b) == a.createdAt <= b.createdAt

\* sort({ createdAt: -1 }): a may come before b
sortOrder(a, b) == a.createdAt >= b.createdAt

\* the orders in which find(query).sort({ createdAt: -1 }) may return ds
sorted(ds) ==
    LET n == Cardinality(ds)
    IN  {s \in [1..n -> ds] :
            /\ \A i, j \in 1..n : i # j => s[i] # s[j]
            /\ \A i, j \in 1..n : i < j => sortOrder(s[i], s[j])}

----------------------------------------------------------------------------
(* Request slots *)

Idle ==
    [kind |-> "none", pc |-> "idle", start |-> 0,
     hasFile |-> FALSE, name |-> <<>>, mime |-> <<>>, size |-> 0, lang |-> "",
     language |-> "", filename |-> NoFile, processedPath |-> NoFile,
     text |-> <<>>, doc |-> NoDoc,
     id |-> MalformedId, search |-> <<>>, seen |-> {}, late |-> FALSE,
     ocrLang |-> "", again |-> FALSE,
     err |-> "", status |-> 0, body |-> <<>>, sent |-> 0, thrown |-> FALSE]

\* error handling middleware: the status it answers for an error
errorMiddleware(err) == IF err = "LIMIT_FILE_SIZE" THEN 400 ELSE 500

\* the Records page before it is mounted (App.jsx): the records state, the
\* handleDelete calls awaiting api.deleteRecord (each with the records of the
\* render that made its closure), the ids whose delete reported success and
\* the ids of the records in the store
PageInit ==
    [loaded |-> FALSE, records |-> {}, pending |-> {}, removed |-> {},
     store |-> 1..MaxShown]

Init ==
    /\ now = 0
    /\ files = {}
    /\ records = {}
    /\ nextId = 1
    /\ req = [s \in Slots |-> Idle]
    /\ resp = Idle
    /\ uploaded = 0
    /\ acked = {}
    /\ ui = PageInit

\* no response is on its way out: resp is read by no handler, so the
\* handlers' steps are taken between one response and the next
quiet == resp.pc = "idle"

\* the clock advances by a millisecond
Tick ==
    /\ quiet
    /\ now < MaxTime
    /\ now' = now + 1
    /\ UNCHANGED <<files, records, nextId, req, resp, uploaded, acked, ui>>

\* slot s takes the next request: it is the first slot without one
free(s) ==
    /\ quiet
    /\ req[s].pc = "idle"
    /\ \A u \in Slots : u < s => req[u].pc # "idle"

\* the response has left the server
Sent ==
    /\ resp.pc = "done"
    /\ resp' = Idle
    /\ UNCHANGED <<now, files, records, nextId, req, uploaded, acked, ui>>

\* res.status(code).json(...) ending the request q
respond(q, code, err) ==
    [q EXCEPT !.pc = "done", !.status = code, !.err = err, !.sent = 1]

\* an exception leaves the async handler of request q: the handler ends and
\* sends nothing more
throw(q, err) == [q EXCEPT !.pc = "done", !.err = err, !.thrown = TRUE]

\* the request of slot s goes on as q; once answered it leaves its slot and
\* resp keeps it as the last request answered
step(s, q) ==
    IF q.pc = "done"
    THEN /\ req' = [req EXCEPT ![s] = Idle]
         /\ resp' = q
    ELSE /\ req' = [req EXCEPT ![s] = q]
         /\ UNCHANGED resp

----------------------------------------------------------------------------
(* POST /api/upload *)

\* the request arrives: upload.single('image') filters the file and starts
\* writing it under its generated name; without a file the handler answers
\* at once
UploadArrive(s, hasFile, name, mime, size, lang) ==
    /\ free(s)
    /\ LET q == [Idle EXCEPT !.kind = "upload", !.start = now,
                     !.hasFile = hasFile, !.name = name, !.mime = mime,
                     !.size = size, !.lang = lang]
       IN  IF ~hasFile
           THEN /\ step(s, respond(q, 400, "NO_FILE"))
                /\ UNCHANGED <<files, uploaded>>
           ELSE IF ~fileFilter(name, mime)
           THEN /\ step(s, respond(q, errorMiddleware("FILE_FILTER"), "FILE_FILTER"))
                /\ UNCHANGED <<files, uploaded>>
           ELSE \E r \in Rands :
                  LET f == storageFilename(now, r, name)
                  IN  /\ uploaded < MaxUploads
                      /\ uploaded' = uploaded + 1
                      /\ step(s, [q EXCEPT !.pc = "multer", !.filename = f])
                      /\ files' = files \cup {f}
    /\ UNCHANGED <<now, records, nextId, acked, ui>>

\* multer has read the whole body: over the size limit it removes the file
\* it wrote and passes LIMIT_FILE_SIZE to the error middleware; otherwise
\* the handler starts (lines 87-99) and calls sharp
MulterDone(s) ==
    /\ quiet
    /\ req[s].pc = "multer"
    /\ LET q == req[s]
       IN  IF q.size > FileSizeLimit
           THEN /\ files' = files \ {q.filename}
                /\ step(s, respond(q, errorMiddleware("LIMIT_FILE_SIZE"),
                                     "LIMIT_FILE_SIZE"))
           ELSE /\ step(s, [q EXCEPT !.pc = "sharp",
                                       !.language = languageOf(q.lang),
                                       !.processedPath = processedPathAt(now)])
                /\ UNCHANGED files
    /\ UNCHANGED <<now, records, nextId, uploaded, acked, ui>>

\* the catch block of the upload handler (lines 134-146); unl: unlinkSync
\* succeeds.  The files it leaves:
catchFiles(q, fs, unl) ==
    IF unl THEN unlinkIfExists(fs, q.filename) ELSE fs

\* and how the request ends: unlinkSync may throw out of the catch block,
\* and res.status(500).json throws when the 201 has been sent already
catchUpload(q, err, fs, unl) ==
    IF q.filename \in fs /\ ~unl THEN throw(q, err)
    ELSE IF q.sent > 0 THEN throw(q, err)
    ELSE respond(q, 500, err)

\* sharp(imagePath)...toFile(processedPath) settles
SharpDone(s, ok, unl) ==
    /\ quiet
    /\ req[s].pc = "sharp"
    /\ ok => req[s].filename \in files
    /\ LET q == req[s]
       IN  IF ok
           THEN /\ files' = files \cup {q.processedPath}
                /\ step(s, [q EXCEPT !.pc = "ocr", !.ocrLang = q.language])
           ELSE /\ files' = catchFiles(q, files, unl)
                /\ step(s, catchUpload(q, "SHARP", files, unl))
    /\ UNCHANGED <<now, records, nextId, uploaded, acked, ui>>

\* Tesseract.recognize(processedPath, language) settles; on success the
\* document is constructed and save() validates it (lines 110-123)
OcrDone(s, ok, text, unl) ==
    /\ quiet
    /\ req[s].pc = "ocr"
    /\ ok => req[s].processedPath \in files
    /\ LET q == req[s]
           doc == newRecord(nextId, imageUrlOf(q.filename), trim(text),
                            q.language, now)
       IN  IF ~ok
           THEN /\ files' = catchFiles(q, files, unl)
                /\ step(s, catchUpload(q, "OCR", files, unl))
                /\ UNCHANGED nextId
           ELSE IF ~validates(doc)
           THEN /\ files' = catchFiles(q, files, unl)
                /\ step(s, catchUpload([q EXCEPT !.text = text], "VALIDATION",
                                       files, unl))
                /\ nextId' = nextId + 1
           ELSE /\ step(s, [q EXCEPT !.pc = "save", !.text = text, !.doc = doc])
                /\ nextId' = nextId + 1
                /\ UNCHANGED files
    /\ UNCHANGED <<now, records, uploaded, acked, ui>>

\* newRecord.save() settles; on success the handler answers 201 and removes
\* the temporary preprocessed file, inside the try block (lines 123-132);
\* unl, unl2: the unlinkSync of line 132 and the one of line 139 succeed
SaveDone(s, ok, unl, unl2) ==
    /\ quiet
    /\ req[s].pc = "save"
    /\ LET q == req[s]
           a == [respond(q, 201, "") EXCEPT !.body = <<q.doc>>]
       IN  IF ~ok
           THEN /\ files' = catchFiles(q, files, unl)
                /\ step(s, catchUpload(q, "STORE", files, unl))
                /\ UNCHANGED records
           ELSE IF q.processedPath \in files /\ ~unl
           THEN /\ records' = records \cup {q.doc}
                /\ files' = catchFiles(a, files, unl2)
                /\ step(s, catchUpload(a, "UNLINK", files, unl2))
           ELSE /\ records' = records \cup {q.doc}
                /\ files' = unlinkIfExists(files, q.processedPath)
                /\ step(s, a)
    /\ UNCHANGED <<now, nextId, uploaded, acked, ui>>

----------------------------------------------------------------------------
(* GET /api/records, GET /api/records/:id, DELETE /api/records/:id *)

IdParams == {MalformedId} \cup (1..nextId)

\* GET /api/records?search=...: Record.find(query).sort({createdAt: -1})
List(s, search, ok) ==
    /\ free(s)
    /\ LET q == [Idle EXCEPT !.kind = "list",
                     !.search = search, !.seen = records]
       IN  IF ~ok
           THEN step(s, respond(q, 500, "STORE"))
           ELSE IF search # <<>> /\ ~regexValid(search)
           THEN step(s, respond(q, 500, "REGEX"))
           ELSE \E b \in sorted(matching(records, search)) :
                  step(s, [respond(q, 200, "") EXCEPT !.body = b])
    /\ UNCHANGED <<now, files, records, nextId, uploaded, acked, ui>>

\* GET /api/records/:id: Record.findById(req.params.id)
Get(s, id, ok) ==
    /\ free(s)
    /\ LET q == [Idle EXCEPT !.kind = "get", !.id = id,
                     !.late = (id \in acked)]
           found == findById(records, id)
       IN  IF ~ok
           THEN step(s, respond(q, 500, "STORE"))
           ELSE IF ~isObjectId(id)
           THEN step(s, respond(q, 500, "CAST"))
           ELSE IF found = {}
           THEN step(s, respond(q, 404, "NOT_FOUND"))
           ELSE \E d \in found :
                  step(s, [respond(q, 200, "") EXCEPT !.body = <<d>>])
    /\ UNCHANGED <<now, files, records, nextId, uploaded, acked, ui>>

\* DELETE /api/records/:id, up to the second await: findById, the 404 answer
\* or the removal of the image file (lines 205-215)
DeleteFind(s, id, ok, unl) ==
    /\ free(s)
    /\ LET q == [Idle EXCEPT !.kind = "delete", !.id = id,
                     !.late = (id \in acked)]
           found == findById(records, id)
       IN  IF ~ok
           THEN /\ step(s, respond(q, 500, "STORE"))
                /\ UNCHANGED files
           ELSE IF ~isObjectId(id)
           THEN /\ step(s, respond(q, 500, "CAST"))
                /\ UNCHANGED files
           ELSE IF found = {}
           THEN /\ step(s, respond(q, 404, "NOT_FOUND"))
                /\ UNCHANGED files
           ELSE \E d \in found :
                  IF pathOfUrl(d.imageUrl) \in files /\ ~unl
                  THEN /\ step(s, respond([q EXCEPT !.doc = d], 500, "UNLINK"))
                       /\ UNCHANGED files
                  ELSE /\ step(s, [q EXCEPT !.pc = "remove", !.doc = d])
                       /\ files' = unlinkIfExists(files, pathOfUrl(d.imageUrl))
    /\ UNCHANGED <<now, records, nextId, uploaded, acked, ui>>

\* Record.findByIdAndDelete(req.params.id) settles and the handler answers
\* (lines 217-222)
DeleteRemove(s, ok) ==
    /\ quiet
    /\ req[s].pc = "remove"
    /\ LET q == req[s]
       IN  IF ok
           THEN /\ records' = findByIdAndDelete(records, q.id)
                /\ step(s, respond([q EXCEPT !.again = (q.id \in acked)], 200, ""))
                /\ acked' = acked \cup {q.id}
           ELSE /\ step(s, respond(q, 500, "STORE"))
                /\ UNCHANGED <<records, acked>>
    /\ UNCHANGED <<now, files, nextId, uploaded, ui>>

\* GET /api/health
Health(s) ==
    /\ free(s)
    /\ step(s, respond([Idle EXCEPT !.kind = "health"], 200, ""))
    /\ UNCHANGED <<now, files, records, nextId, uploaded, acked, ui>>

----------------------------------------------------------------------------

Next ==
    \/ Tick
    \/ Sent
    \/ \E s \in Slots, f \in UploadFiles, lang \in Languages :
            UploadArrive(s, f.hasFile, f.name, f.mime, f.size, lang)
    \/ \E s \in Slots : MulterDone(s)
    \/ \E s \in Slots, ok, unl \in BOOLEAN : SharpDone(s, ok, unl)
    \/ \E s \in Slots, ok, unl \in BOOLEAN, text \in Texts :
            OcrDone(s, ok, text, unl)
    \/ \E s \in Slots, ok, unl, unl2 \in BOOLEAN : SaveDone(s, ok, unl, unl2)
    \/ \E s \in Slots, search \in Searches, ok \in BOOLEAN : List(s, search, ok)
    \/ \E s \in Slots, id \in IdParams, ok \in BOOLEAN : Get(s, id, ok)
    \/ \E s \in Slots, id \in IdParams, ok, unl \in BOOLEAN :
            DeleteFind(s, id, ok, unl)
    \/ \E s \in Slots, ok \in BOOLEAN : DeleteRemove(s, ok)
    \/ \E s \in Slots : Health(s)

Spec == Init /\ [][Next]_vars

----------------------------------------------------------------------------
(* The Records page of the frontend (App.jsx, Records component) *)

server == <<now, files, records, nextId, req, resp, uploaded, acked>>

\* the list shown: filteredRecords for an empty search term
displayed == ui.records

\* records.filter(record => record._id !== id)
withoutRecord(recs, id) == recs \ {id}

\* fetchRecords, called once when the page is mounted, settles
PageFetch(ok) ==
    /\ ~ui.loaded
    /\ ui' = [ui EXCEPT !.loaded = TRUE,
                        !.records = IF ok THEN ui.store ELSE {}]
    /\ UNCHANGED server

\* the user clicks the delete button of a record shown and confirms:
\* handleDelete(id) of the current render calls api.deleteRecord(id)
PageClick(id) ==
    /\ ui.loaded
    /\ id \in displayed
    /\ Cardinality(ui.pending) < MaxPending
    /\ ui' = [ui EXCEPT !.pending = @ \cup {[id |-> id, snap |-> ui.records]}]
    /\ UNCHANGED server

\* api.deleteRecord(id) of a pending handleDelete settles: the server
\* answers success when it served the request (ok) and found the record;
\* then setRecords(records.filter(...)) with the records of the closure
PageDeleted(p, ok) ==
    /\ p \in ui.pending
    /\ LET success == ok /\ p.id \in ui.store
       IN  ui' = [ui EXCEPT
                    !.pending = @ \ {p},
                    !.store = IF success THEN @ \ {p.id} ELSE @,
                    !.records = IF success THEN withoutRecord(p.snap, p.id) ELSE @,
                    !.removed = IF success THEN @ \cup {p.id} ELSE @]
    /\ UNCHANGED server

NextPage ==
    \/ \E ok \in BOOLEAN : PageFetch(ok)
    \/ \E id \in 1..MaxShown : PageClick(id)
    \/ \E p \in ui.pending, ok \in BOOLEAN : PageDeleted(p, ok)

SpecPage == Init /\ [][NextPage]_vars

----------------------------------------------------------------------------
(* What the claims speak of *)

\* the allow-list of the specification: png, jpg/jpeg, gif, bmp, tiff, webp
AllowedExtensions == {<<".">> \o a : a \in AllowedTypes}
AllowedContentTypes == {<<"i","m","a","g","e","/">> \o a : a \in AllowedTypes}

\* the file of upload request q is of an allowed type
allowedFile(q) ==
    /\ toLowerCase(extname(q.name)) \in AllowedExtensions
    /\ q.mime \in AllowedContentTypes

\* resp is the answer to a request of kind k
answered(k) == resp.pc = "done" /\ resp.kind = k

\* no file written for upload request q is in the uploads directory
noFileLeft(q) == q.filename \notin files /\ q.processedPath \notin files

\* no record was stored for upload request q
noRecord(q) == \A d \in records : d.imageUrl # imageUrlOf(q.filename)

\* s occurs in text as a literal substring, compared case-insensitively
containsIgnoreCase(text, s) == Contains(toLowerCase(text), toLowerCase(s))

\* the elements of a sequence
range(b) == {b[i] : i \in 1..Len(b)}

\* C1: an upload whose extension or content-type is outside the allow-list
\* is answered 400, stores no record and leaves no file.
C1_DisallowedTypeAnswers400 ==
    (answered("upload") /\ resp.hasFile /\ ~allowedFile(resp))
        => /\ resp.status = 400
           /\ noRecord(resp)
           /\ noFileLeft(resp)

\* C2: an upload without an image payload, or with one over 10 MiB, is
\* answered 400, stores no record and leaves no file.
C2_MissingOrOversizeAnswers400 ==
    (answered("upload") /\ (~resp.hasFile \/ resp.size > FileSizeLimit))
        => /\ resp.status = 400
           /\ noRecord(resp)
           /\ noFileLeft(resp)

\* C3: when the recognition step fails, no record is stored and both the raw
\* upload and the temporary preprocessed file are gone when the error is
\* answered.
C3_RecognitionFailureCleansUp ==
    (answered("upload") /\ resp.err = "OCR")
        => /\ noRecord(resp)
           /\ resp.filename \notin files
           /\ resp.processedPath \notin files

\* C4: an upload of an allowed type and size for which preprocessing and
\* recognition succeed and the store is available is answered 201 with a
\* saved record whose imageUrl names a file of the uploads directory and
\* whose createdAt is not before the start of the request.
C4_ValidUploadAnswers201 ==
    (/\ answered("upload") /\ resp.hasFile /\ allowedFile(resp)
     /\ resp.size <= FileSizeLimit
     /\ resp.err \notin {"SHARP", "OCR", "STORE"})
        => /\ resp.status = 201
           /\ Len(resp.body) = 1
           /\ resp.body[1] \in records
           /\ pathOfUrl(resp.body[1].imageUrl) \in files
           /\ resp.body[1].createdAt >= resp.start

\* C5: whatever the recognition step returns, the empty string and blank
\* text included, a record is stored and returned whose extractedText is that
\* output without its leading and trailing whitespace.
C5_TrimmedTextIsStored ==
    (/\ answered("upload") /\ resp.hasFile /\ allowedFile(resp)
     /\ resp.size <= FileSizeLimit
     /\ resp.err \notin {"SHARP", "OCR", "STORE"})
        => /\ resp.status = 201
           /\ Len(resp.body) = 1
           /\ resp.body[1] \in records
           /\ resp.body[1].extractedText = trim(resp.text)
           /\ \A i \in 1..Len(resp.body[1].extractedText) :
                 i \in {1, Len(resp.body[1].extractedText)}
                     => ~IsSpace(resp.body[1].extractedText[i])

\* C6 as stated: GET /api/records returns the records in strictly
\* descending createdAt order.
C6_StrictlyDescending ==
    (answered("list") /\ resp.status = 200)
        => \A i, j \in 1..Len(resp.body) :
              i < j => resp.body[i].createdAt > resp.body[j].createdAt

\* C6 as amended: GET /api/records returns stored records, each once, newest
\* first: no record comes before one with a later createdAt (records with
\* the same createdAt come in either order).
C6_Descending ==
    (answered("list") /\ resp.status = 200)
        => /\ range(resp.body) \subseteq resp.seen
           /\ Cardinality(range(resp.body)) = Len(resp.body)
           /\ \A i, j \in 1..Len(resp.body) :
                 i < j => resp.body[i].createdAt >= resp.body[j].createdAt

\* a list of two records created at different times has been answered
C6_Witness ==
    /\ answered("list") /\ resp.status = 200
    /\ Len(resp.body) = 2
    /\ resp.body[1].createdAt # resp.body[2].createdAt

\* C7: list(s) returns exactly the stored records whose extractedText
\* contains s as a literal substring, compared case-insensitively (all of
\* them for the empty string).
C7_LiteralSubstringSearch ==
    (answered("list") /\ resp.err # "STORE")
        => /\ resp.status = 200
           /\ range(resp.body) =
                 {d \in resp.seen : containsIgnoreCase(d.extractedText, resp.search)}

\* C8: once DELETE /api/records/:id has answered 200 for an id, every later
\* GET and DELETE for that id that the store serves answers 404.
C8_DeletedStaysNotFound ==
    (/\ answered("get") \/ answered("delete")
     /\ resp.late
     /\ resp.err # "STORE")
        => resp.status = 404

\* a GET for an id whose delete had answered 200 has been answered
C8_Witness ==
    /\ answered("get")
    /\ resp.late
    /\ resp.id \in acked
    /\ resp.status = 404

\* C9: a GET or DELETE whose id names no stored record, well-formed or not,
\* is answered 404.
C9_UnknownIdAnswers404 ==
    (/\ answered("get") \/ answered("delete")
     /\ resp.err # "STORE"
     /\ resp.body = <<>> /\ resp.doc = NoDoc)
        => resp.status = 404

\* upload requests in flight
inFlight(s) == req[s].kind = "upload" /\ req[s].pc # "idle"

\* C10: no two upload requests in flight write to the same path.  This is
\* the claim for the temporary preprocessed files of two requests whose raw
\* uploads have different names.
C10_NoSharedTempPath ==
    \A s, u \in Slots :
        (/\ s # u /\ inFlight(s) /\ inFlight(u)
         /\ req[s].filename # req[u].filename
         /\ req[s].processedPath # NoFile)
            => req[s].processedPath # req[u].processedPath

\* C11: when an upload has stored its record and answered 201, the cleanup
\* of the temporary file that follows never removes the raw upload the
\* record names and never leads to a second, error response: a failure of
\* that cleanup is swallowed.
C11_CleanupKeepsRawUpload ==
    (answered("upload") /\ resp.status = 201)
        => /\ resp.filename \in files
           /\ ~resp.thrown

\* C12: when the store write of an upload fails, the answer is 500, no
\* record exists for the request and both its raw upload and its temporary
\* preprocessed file are gone.
C12_StoreFailureCleansUp ==
    (answered("upload") /\ resp.err = "STORE")
        => /\ resp.status = 500
           /\ resp.doc \notin records
           /\ resp.filename \notin files
           /\ resp.processedPath \notin files

\* C13: of the delete requests for one id, whatever their interleaving, one
\* answers 200 and the others 404: no delete answers 200 for an id for which
\* a delete has answered 200 before.
C13_OneDeleteSucceeds ==
    (answered("delete") /\ resp.status = 200) => ~resp.again

\* C14: the language of the record stored by a successful upload is the one
\* given to the recognition step, and it is the language field of the
\* request, or 'eng' when the request gives none.
C14_StoredLanguage ==
    (answered("upload") /\ resp.status = 201)
        => /\ Len(resp.body) = 1
           /\ resp.body[1].language = resp.ocrLang
           /\ resp.lang = "" => resp.body[1].language = "eng"
           /\ resp.lang # "" => resp.body[1].language = resp.lang

\* an upload without a language field has been answered 201, its record
\* stored with the default language
C14_Witness ==
    /\ answered("upload") /\ resp.status = 201
    /\ resp.lang = ""
    /\ resp.body[1] \in records
    /\ resp.body[1].language = "eng"

\* a request is answered in this step
answering == resp.pc = "idle" /\ resp'.pc = "done"

\* C15: every step leaves the record collection as it is, or is an upload
\* answering 201 that adds exactly its record, or a delete answering 200
\* that removes exactly the record of its id; a delete answering 200 leaves
\* no record of its id; list, get, health and every request answered with an
\* error change nothing; and a record stored before and after a step has the
\* same fields.
C15_OnlyUploadAndDeleteChange ==
    [][/\ records' # records =>
            /\ answering
            /\ \/ /\ resp'.kind = "upload" /\ resp'.status = 201
                  /\ Len(resp'.body) = 1
                  /\ resp'.body[1] \notin records
                  /\ records' = records \cup {resp'.body[1]}
               \/ /\ resp'.kind = "delete" /\ resp'.status = 200
                  /\ resp'.doc \in records
                  /\ resp'.doc.id = resp'.id
                  /\ records' = records \ {resp'.doc}
       /\ (answering /\ resp'.kind = "delete" /\ resp'.status = 200)
            => \A d \in records' : d.id # resp'.id
       /\ (answering /\ (resp'.kind \in {"list", "get", "health"}
                          \/ resp'.status \notin {200, 201}))
            => records' = records
       /\ \A d \in records, e \in records' : d.id = e.id => d = e
      ]_vars

\* a delete has answered 200 and another record is still stored
C15_Witness ==
    /\ answered("delete") /\ resp.status = 200
    /\ resp.doc \notin records
    /\ records # {}

\* C16: when the preprocessing step fails, the request is answered 500, the
\* recognition step has not been invoked, no record is created and the raw
\* upload is removed.
C16_PreprocessingFailure ==
    (answered("upload") /\ resp.err = "SHARP")
        => /\ resp.status = 500
           /\ resp.ocrLang = ""
           /\ resp.doc = NoDoc
           /\ resp.filename \notin files

\* no request is in flight
quiescent == quiet /\ \A s \in Slots : req[s].pc = "idle"

\* C17: when no request is in flight, the files of the uploads directory
\* are exactly the files named by the imageUrl of the stored records.
C17_FilesMatchRecords ==
    quiescent => files = {pathOfUrl(d.imageUrl) : d \in records}

\* C18: a request to the upload, list, get or delete route whose handler has
\* ended has been sent exactly one response.
C18_ExactlyOneResponse ==
    (resp.pc = "done" /\ resp.kind \in {"upload", "list", "get", "delete"})
        => resp.sent = 1

\* C19: when every delete request started on the Records page has been
\* answered, no record whose delete reported success is shown.
C19_DeletedNotShown ==
    ui.pending = {} => displayed \cap ui.removed = {}

====
